---- MODULE Spec2Model ----
(***************************************************************************)
(* Training-load engine of src/utils/functions.py:                         *)
(*   calculate_ctl_atl_tsb  (gap filling + CTL/ATL/TSB recursion)          *)
(*   fit_cp_w_prime         (critical-power regression)                    *)
(*                                                                         *)
(* Python floats are modelled as exact reals.  A load value is a signed    *)
(* arbitrary-precision integer counting units of 1/Scale, Scale = 42^k     *)
(* with k at least the longest chain of recursion steps, so that every     *)
(* division by 42 and by 7 the recursion performs is exact; NaN is kept    *)
(* as a separate flag and propagates through every operation.              *)
(***************************************************************************)
EXTENDS Integers, Sequences, FiniteSets, TLC

(* ----------------------------------------------------------------------- *)
(* Bounds of the model                                                     *)
(* ----------------------------------------------------------------------- *)
MaxRows == 2
MaxDays == 4
LongDays == 20
MaxPoints == 3

(* ----------------------------------------------------------------------- *)
(* Program constants                                                       *)
(* ----------------------------------------------------------------------- *)
CTL_DAYS == 42
ATL_DAYS == 7

(* ----------------------------------------------------------------------- *)
(* Arbitrary-precision naturals: little-endian sequences of limbs          *)
(* ----------------------------------------------------------------------- *)
Base == 10000

\* F applied to the value of v: v is evaluated once, before F
Strict(v, F(_)) == CHOOSE z \in {F(w) : w \in {v}} : TRUE

RECURSIVE NatTrim(_)
NatTrim(m) ==
  IF m = <<>> THEN m
  ELSE IF m[Len(m)] = 0 THEN NatTrim(SubSeq(m, 1, Len(m) - 1)) ELSE m

Rest(m) == IF m = <<>> THEN <<>> ELSE Tail(m)
Low(m) == IF m = <<>> THEN 0 ELSE Head(m)

RECURSIVE NatAddC(_, _, _)
NatAddC(a, b, c) ==
  IF a = <<>> /\ b = <<>> THEN (IF c = 0 THEN <<>> ELSE <<c>>)
  ELSE LET s == Low(a) + Low(b) + c
       IN  <<s % Base>> \o NatAddC(Rest(a), Rest(b), s \div Base)

NatAdd(a, b) == NatAddC(a, b, 0)

\* a - b for a >= b
RECURSIVE NatSubB(_, _, _)
NatSubB(a, b, br) ==
  IF a = <<>> THEN <<>>
  ELSE LET s == Head(a) - Low(b) - br
       IN  IF s < 0 THEN <<s + Base>> \o NatSubB(Tail(a), Rest(b), 1)
           ELSE <<s>> \o NatSubB(Tail(a), Rest(b), 0)

NatSub(a, b) == NatTrim(NatSubB(a, b, 0))

\* -1, 0, 1 as a < b, a = b, a > b (both trimmed)
RECURSIVE NatCmpTop(_, _, _)
NatCmpTop(a, b, k) ==
  IF k = 0 THEN 0
  ELSE IF a[k] < b[k] THEN -1
  ELSE IF a[k] > b[k] THEN 1
  ELSE NatCmpTop(a, b, k - 1)

NatCmp(a, b) ==
  IF Len(a) < Len(b) THEN -1
  ELSE IF Len(a) > Len(b) THEN 1
  ELSE NatCmpTop(a, b, Len(a))

\* a * k for a limb-sized k
RECURSIVE NatMulSmallC(_, _, _)
NatMulSmallC(a, k, c) ==
  IF a = <<>> THEN (IF c = 0 THEN <<>> ELSE <<c>>)
  ELSE LET p == Head(a) * k + c
       IN  <<p % Base>> \o NatMulSmallC(Tail(a), k, p \div Base)

NatMulSmall(a, k) == NatTrim(NatMulSmallC(a, k, 0))

RECURSIVE NatMul(_, _)
NatMul(a, b) ==
  IF a = <<>> \/ b = <<>> THEN <<>>
  ELSE NatTrim(NatAdd(NatMulSmall(a, Head(b)), <<0>> \o NatMul(a, Tail(b))))

\* quotient and remainder of a by a limb-sized k > 0
RECURSIVE NatDivRem(_, _)
NatDivRem(a, k) ==
  IF a = <<>> THEN [q |-> <<>>, r |-> 0]
  ELSE LET hi == NatDivRem(Tail(a), k)
           cur == hi.r * Base + Head(a)
       IN  [q |-> <<cur \div k>> \o hi.q, r |-> cur % k]

\* the largest d in lo..hi with d * b <= cur (lo qualifies)
RECURSIVE NatDigit(_, _, _, _)
NatDigit(cur, b, lo, hi) ==
  IF lo = hi THEN lo
  ELSE LET mid == (lo + hi + 1) \div 2
       IN  IF NatCmp(NatMulSmall(b, mid), cur) <= 0
           THEN NatDigit(cur, b, mid, hi)
           ELSE NatDigit(cur, b, lo, mid - 1)

\* quotient and remainder of a by b # 0 (long division)
\* one step of the long division: the limb `low` below the partial result hi
NatDivModStep(low, hi, b) ==
  Strict(NatTrim(<<low>> \o hi.r), LAMBDA cur :
    Strict(NatDigit(cur, b, 0, Base - 1), LAMBDA d :
      [q |-> NatTrim(<<d>> \o hi.q), r |-> NatSub(cur, NatMulSmall(b, d))]))

RECURSIVE NatDivMod(_, _)
NatDivMod(a, b) ==
  IF a = <<>> THEN [q |-> <<>>, r |-> <<>>]
  ELSE Strict(NatDivMod(Tail(a), b), LAMBDA hi : NatDivModStep(Head(a), hi, b))

RECURSIVE NatGcd(_, _)
NatGcd(a, b) ==
  IF b = <<>> THEN a
  ELSE Strict(NatDivMod(a, b).r, LAMBDA r : NatGcd(b, r))

RECURSIVE NatOfInt(_)
NatOfInt(n) == IF n = 0 THEN <<>> ELSE <<n % Base>> \o NatOfInt(n \div Base)

(* ----------------------------------------------------------------------- *)
(* Signed integers                                                         *)
(* ----------------------------------------------------------------------- *)
ZMake(neg, mag) == [neg |-> neg /\ mag # <<>>, mag |-> mag]
ZInt(n) == IF n < 0 THEN ZMake(TRUE, NatOfInt(-n)) ELSE ZMake(FALSE, NatOfInt(n))
ZZero == ZInt(0)
ZNeg(a) == ZMake(~a.neg, a.mag)

ZAdd(a, b) ==
  IF a.neg = b.neg THEN ZMake(a.neg, NatAdd(a.mag, b.mag))
  ELSE IF NatCmp(a.mag, b.mag) >= 0 THEN ZMake(a.neg, NatSub(a.mag, b.mag))
  ELSE ZMake(b.neg, NatSub(b.mag, a.mag))

ZSub(a, b) == ZAdd(a, ZNeg(b))
ZMul(a, b) == ZMake(a.neg # b.neg, NatMul(a.mag, b.mag))
ZDivSmall(a, k) == ZMake(a.neg, NatTrim(NatDivRem(a.mag, k).q))
ZRemSmall(a, k) == NatDivRem(a.mag, k).r
ZSign(a) == IF a.mag = <<>> THEN 0 ELSE IF a.neg THEN -1 ELSE 1
ZLess(a, b) == ZSign(ZSub(a, b)) < 0

RECURSIVE ZPow(_, _)
ZPow(k, n) == IF n = 0 THEN ZInt(1) ELSE ZMul(ZInt(k), ZPow(k, n - 1))

(* ----------------------------------------------------------------------- *)
(* Floats: NaN, or an exact multiple of 1/Scale                            *)
(* ----------------------------------------------------------------------- *)
ScaleExp == IF LongDays > MaxDays THEN LongDays ELSE MaxDays
Scale == ZPow(CTL_DAYS, ScaleExp)

NaN == [nan |-> TRUE, v |-> ZZero]
Float(k) == [nan |-> FALSE, v |-> ZMul(ZInt(k), Scale)]
FAdd(a, b) == IF a.nan \/ b.nan THEN NaN ELSE [nan |-> FALSE, v |-> ZAdd(a.v, b.v)]
FSub(a, b) == IF a.nan \/ b.nan THEN NaN ELSE [nan |-> FALSE, v |-> ZSub(a.v, b.v)]
FDiv(a, k) == IF a.nan THEN NaN ELSE [nan |-> FALSE, v |-> ZDivSmall(a.v, k)]
FLess(a, b) == ~a.nan /\ ~b.nan /\ ZLess(a.v, b.v)
FLeq(a, b) == ~a.nan /\ ~b.nan /\ ~ZLess(b.v, a.v)

(* ----------------------------------------------------------------------- *)
(* Tables.  A date cell is an ISO string ("str") or a Timestamp ("ts") of  *)
(* calendar day number `day`; a row is [date, TSS].                        *)
(* ----------------------------------------------------------------------- *)
DateCell(kind, day) == [kind |-> kind, day |-> day]
Row(date, tss) == [date |-> date, TSS |-> tss]

\* pd.to_datetime on one cell: parses a string into a Timestamp
to_datetime(c) == [kind |-> "ts", day |-> c.day]

\* df['date'] = pd.to_datetime(df['date'])
AssignDatetime(t) == [k \in DOMAIN t |-> [t[k] EXCEPT !.date = to_datetime(@)]]

\* stable insertion of row r into the date-sorted table t (rows with equal
\* dates keep their order; their order never reaches the result, since
\* reindex rejects duplicate labels)
RECURSIVE InsertByDate(_, _)
InsertByDate(t, r) ==
  IF t = <<>> THEN <<r>>
  ELSE IF t[Len(t)].date.day <= r.date.day THEN Append(t, r)
  ELSE Append(InsertByDate(SubSeq(t, 1, Len(t) - 1), r), t[Len(t)])

\* df.sort_values(by='date'): a new table, the argument is left alone
RECURSIVE sort_values(_)
sort_values(t) ==
  IF t = <<>> THEN <<>>
  ELSE InsertByDate(sort_values(SubSeq(t, 1, Len(t) - 1)), t[Len(t)])

\* df.dropna(subset=['TSS']).copy()
NotMissing(r) == ~r.TSS.nan
\* mutant: no row is dropped
dropna_keeps_all(t) == t
dropna(t) == SelectSeq(t, NotMissing)

\* df_clean['date'].min() / .max(); NaT (here 0 rows: no value) on an empty column
Days(t) == {t[k].date.day : k \in DOMAIN t}
DateMin(t) == CHOOSE d \in Days(t) : \A e \in Days(t) : d <= e
DateMax(t) == CHOOSE d \in Days(t) : \A e \in Days(t) : e <= d

\* mutant: the end day is left out
date_range_exclusive(start, end) ==
  [k \in 1..(end - start) |-> DateCell("ts", start + k - 1)]

\* pd.date_range(start, end): one Timestamp per calendar day, inclusive
date_range(start, end) ==
  [k \in 1..(end - start + 1) |-> DateCell("ts", start + k - 1)]

\* the index set by set_index('date') holds a label twice
HasDuplicateLabels(t) ==
  \E j, k \in DOMAIN t : j # k /\ t[j].date = t[k].date

\* df_clean.reindex(all_dates).rename_axis('date').reset_index() on a unique
\* index: one row per label of all_dates, NaN where the label is absent
RowAt(t, d) == CHOOSE k \in DOMAIN t : t[k].date = d
reindex(t, dates) ==
  [k \in DOMAIN dates |->
     IF \E j \in DOMAIN t : t[j].date = dates[k]
     THEN Row(dates[k], t[RowAt(t, dates[k])].TSS)
     ELSE Row(dates[k], NaN)]

\* df_clean['TSS'].fillna(0, inplace=True): the column selected is the
\* table's own (pandas without copy-on-write), so the fill reaches df_clean
fillna(t, value) ==
  [k \in DOMAIN t |-> IF t[k].TSS.nan THEN [t[k] EXCEPT !.TSS = value] ELSE t[k]]

\* df_clean['ctl'] = df_clean['atl'] = df_clean['tsb'] = np.nan
AddColumns(t) ==
  [k \in DOMAIN t |->
     [date |-> t[k].date, TSS |-> t[k].TSS, ctl |-> NaN, atl |-> NaN, tsb |-> NaN]]

\* mutant: the increment forgets to subtract the previous value
CtlStep_no_pull(c, tss) == FAdd(c, FDiv(tss, CTL_DAYS))
\* mutant: the acute load uses the chronic time constant
AtlStep_slow(a, tss) == FAdd(a, FDiv(FSub(tss, a), CTL_DAYS))

\* ctl + (tss - ctl) / 42   and   atl + (tss - atl) / 7
CtlStep(c, tss) == FAdd(c, FDiv(FSub(tss, c), CTL_DAYS))
AtlStep(a, tss) == FAdd(a, FDiv(FSub(tss, a), ATL_DAYS))

\* mutant: the balance is written with its operands swapped
WriteRow_swapped(t, idx, c, a) ==
  [t EXCEPT ![idx + 1] = [@ EXCEPT !.ctl = c, !.atl = a, !.tsb = FSub(a, c)]]

\* df_clean.loc[i, 'ctl'] = ctl, ... (i counts from 0)
WriteRow(t, idx, c, a) ==
  [t EXCEPT ![idx + 1] = [@ EXCEPT !.ctl = c, !.atl = a, !.tsb = FSub(c, a)]]

\* mutant: the seeds are ignored, every call starts cold
RecursionSeed_cold(cs, as) == [ctl |-> Float(0), atl |-> Float(0)]

\* ctl = ctl_start; atl = atl_start
RecursionSeed(cs, as) == [ctl |-> cs, atl |-> as]

(* ----------------------------------------------------------------------- *)
(* Exact rationals for the regression: NaN, or num/den with den > 0        *)
(* ----------------------------------------------------------------------- *)
QNaN == [nan |-> TRUE, num |-> ZZero, den |-> ZInt(1)]
\* n/d in lowest terms, d > 0
QReduce(n, d, g) ==
  [nan |-> FALSE, num |-> ZMake(n.neg, NatDivMod(n.mag, g).q),
   den |-> ZMake(FALSE, NatDivMod(d.mag, g).q)]
QMake(n, d) ==
  Strict(<<n, d>>, LAMBDA nd :
    Strict(NatGcd(nd[1].mag, nd[2].mag), LAMBDA g : QReduce(nd[1], nd[2], g)))
QInt(k) == QMake(ZInt(k), ZInt(1))
QFrac(n, d) == QMake(ZInt(n), ZInt(d))
QAdd(a, b) ==
  IF a.nan \/ b.nan THEN QNaN
  ELSE QMake(ZAdd(ZMul(a.num, b.den), ZMul(b.num, a.den)), ZMul(a.den, b.den))
QSub(a, b) ==
  IF a.nan \/ b.nan THEN QNaN
  ELSE QMake(ZSub(ZMul(a.num, b.den), ZMul(b.num, a.den)), ZMul(a.den, b.den))
QMul(a, b) ==
  IF a.nan \/ b.nan THEN QNaN
  ELSE QMake(ZMul(a.num, b.num), ZMul(a.den, b.den))
\* numpy float division: 0/0 is nan (a zero divisor is only ever met with a
\* zero dividend on the paths of linregress)
QDiv(a, b) ==
  IF a.nan \/ b.nan \/ ZSign(b.num) = 0 THEN QNaN
  ELSE IF ZSign(b.num) < 0
       THEN QMake(ZNeg(ZMul(a.num, b.den)), ZMul(a.den, ZNeg(b.num)))
       ELSE QMake(ZMul(a.num, b.den), ZMul(a.den, b.num))
QEq(a, b) == ~a.nan /\ ~b.nan /\ a = b
QIsZero(a) == ~a.nan /\ ZSign(a.num) = 0
QPositive(a) == ~a.nan /\ ZSign(a.num) > 0

RECURSIVE QSum(_)
QSum(s) == IF s = <<>> THEN QInt(0) ELSE QAdd(Head(s), QSum(Tail(s)))

\* np.mean
QMean(s) == QDiv(QSum(s), QInt(Len(s)))

\* one entry of np.cov(a, b, bias=1): mean((a - mean(a)) * (b - mean(b)))
QCovAbout(a, b, amean, bmean) ==
  QMean([k \in DOMAIN a |-> QMul(QSub(a[k], amean), QSub(b[k], bmean))])
QCov(a, b) ==
  Strict(<<QMean(a), QMean(b)>>, LAMBDA mu : QCovAbout(a, b, mu[1], mu[2]))

(* ----------------------------------------------------------------------- *)
(* fit_cp_w_prime: the data shaping and scipy.stats.linregress             *)
(* A standard error is kept as its square (the radicand of the np.sqrt     *)
(* that produces it).                                                      *)
(* ----------------------------------------------------------------------- *)
Point(t, p) == [time |-> t, power |-> p]

\* x = df['time']
FitX(prof) == [k \in DOMAIN prof |-> QInt(prof[k].time)]

\* mutant: the regression is run on power instead of work
FitY_power_only(prof) == [k \in DOMAIN prof |-> prof[k].power]

\* y = df['power'] * df['time']
FitY(prof) == [k \in DOMAIN prof |-> QMul(prof[k].power, QInt(prof[k].time))]

\* linregress raises ValueError on empty input ("Inputs must not be empty")
\* and on more than one point with all x identical ("Cannot calculate a
\* linear regression if all x values are identical"); a single point passes
\* both tests
LinregressRaises(xs, ys) ==
  \/ xs = <<>>
  \/ ys = <<>>
  \/ Len(xs) > 1 /\ \A k \in DOMAIN xs : QEq(xs[k], xs[1])

\* n, the means, and np.cov(x, y, bias=1).flat
Moments(xs, ys) ==
  [n |-> Len(xs), xmean |-> QMean(xs), ymean |-> QMean(ys),
   ssxm |-> QCov(xs, xs), ssxym |-> QCov(xs, ys), ssym |-> QCov(ys, ys)]

\* r squared (r is 0.0 when a variance is 0), slope = ssxym / ssxm
SlopeAndR2(m) ==
  [r2 |-> IF QIsZero(m.ssxm) \/ QIsZero(m.ssym) THEN QInt(0)
          ELSE QDiv(QMul(m.ssxym, m.ssxym), QMul(m.ssxm, m.ssym)),
   slope |-> QDiv(m.ssxym, m.ssxm)]

\* slope_stderr squared: 0.0 for two points, else (1 - r^2) * ssym / ssxm / df
SlopeVariance(m, sr) ==
  IF m.n = 2 THEN QInt(0)
  ELSE QDiv(QDiv(QMul(QSub(QInt(1), sr.r2), m.ssym), m.ssxm), QInt(m.n - 2))

\* intercept = ymean - slope*xmean; intercept_stderr squared:
\* 0.0 for two points, else slope_stderr^2 * (ssxm + xmean^2)
RegressionResult(m, sr, slope_var) ==
  [CP |-> sr.slope,
   CP_err |-> slope_var,
   W_prime |-> QSub(m.ymean, QMul(sr.slope, m.xmean)),
   W_prime_err |-> IF m.n = 2 THEN QInt(0)
                   ELSE QMul(slope_var, QAdd(m.ssxm, QMul(m.xmean, m.xmean)))]

linregress(xs, ys) ==
  Strict(Moments(xs, ys), LAMBDA m :
    Strict(SlopeAndR2(m), LAMBDA sr :
      Strict(SlopeVariance(m, sr), LAMBDA sv : RegressionResult(m, sr, sv))))

(* ----------------------------------------------------------------------- *)
(* State                                                                   *)
(* ----------------------------------------------------------------------- *)
VARIABLES
  pc,          \* position of the running call
  err,         \* exception that ended the call, "" when none
  df,          \* the caller's table object, passed as `df`
  df_before,   \* the caller's table as it was when the call began
  ctl_start,   \* seed arguments
  atl_start,
  df_sorted,   \* local `df` after line 61 rebinds it
  df_clean,    \* local df_clean
  all_dates,   \* local all_dates
  i,           \* loop index of line 80
  ctl,         \* running values of lines 76-83
  atl,
  ret,         \* the returned daily series
  phase,       \* continuation scenario: 0 none, 1 first part, 2 second part, 3 whole
  series,      \* continuation scenario: the whole observation table
  hist,        \* continuation scenario: series returned by the earlier calls
  profile,     \* fit_cp_w_prime: the caller's power profile
  x,           \* fit_cp_w_prime: local x
  y,           \* fit_cp_w_prime: local y
  fit          \* fit_cp_w_prime: the returned tuple

vars == <<pc, err, df, df_before, ctl_start, atl_start, df_sorted, df_clean,
          all_dates, i, ctl, atl, ret, phase, series, hist, profile, x, y, fit>>

loadLocals == <<df_sorted, df_clean, all_dates, i, ctl, atl>>
scenario == <<phase, series, hist>>
fitVars == <<profile, x, y, fit>>
callArgs == <<df_before, ctl_start, atl_start>>

NoFit == [CP |-> QNaN, CP_err |-> QNaN, W_prime |-> QNaN, W_prime_err |-> QNaN]

Init ==
  /\ pc = "idle"
  /\ err = ""
  /\ df = <<>>
  /\ df_before = <<>>
  /\ ctl_start = Float(0)
  /\ atl_start = Float(0)
  /\ df_sorted = <<>>
  /\ df_clean = <<>>
  /\ all_dates = <<>>
  /\ i = 0
  /\ ctl = Float(0)
  /\ atl = Float(0)
  /\ ret = <<>>
  /\ phase = 0
  /\ series = <<>>
  /\ hist = <<>>
  /\ profile = <<>>
  /\ x = <<>>
  /\ y = <<>>
  /\ fit = NoFit

(* ----------------------------------------------------------------------- *)
(* Inputs a caller may pass                                                *)
(* ----------------------------------------------------------------------- *)
StressChoices == {NaN, Float(0), Float(60)}
SeedChoices == {<<Float(0), Float(0)>>, <<Float(30), Float(50)>>}
RowChoices(kind) ==
  {Row(DateCell(kind, d), s) : d \in 1..MaxDays, s \in StressChoices}
Tables ==
  UNION {[1..n -> RowChoices(kind)] : n \in 0..MaxRows, kind \in {"str", "ts"}}

(* ----------------------------------------------------------------------- *)
(* calculate_ctl_atl_tsb(df, ctl_start, atl_start)                         *)
(* ----------------------------------------------------------------------- *)
\* the caller calls the function with a table and seeds
Call ==
  /\ pc = "idle"
  /\ \E t \in Tables, s \in SeedChoices :
       /\ df' = t
       /\ df_before' = t
       /\ ctl_start' = s[1]
       /\ atl_start' = s[2]
  /\ pc' = "line60"
  /\ UNCHANGED <<err, loadLocals, ret, scenario, fitVars>>

\* line 60: df['date'] = pd.to_datetime(df['date'])  (writes the caller's table)
ConvertDates ==
  /\ pc = "line60"
  /\ df' = AssignDatetime(df)
  /\ pc' = "line61"
  /\ UNCHANGED <<err, callArgs, loadLocals, ret, scenario, fitVars>>

\* line 61: df = df.sort_values(by='date')  (rebinds the local name)
SortRows ==
  /\ pc = "line61"
  /\ df_sorted' = sort_values(df)
  /\ pc' = "line64"
  /\ UNCHANGED <<err, df, callArgs, df_clean, all_dates, i, ctl, atl, ret,
                 scenario, fitVars>>

\* line 64: df_clean = df.dropna(subset=['TSS']).copy()
DropMissing ==
  /\ pc = "line64"
  /\ df_clean' = dropna(df_sorted)
  /\ pc' = "line65"
  /\ UNCHANGED <<err, df, callArgs, df_sorted, all_dates, i, ctl, atl, ret,
                 scenario, fitVars>>

\* line 65: all_dates = pd.date_range(start=min, end=max); min and max of an
\* empty column are NaT, on which date_range raises ValueError
BuildDateRange ==
  /\ pc = "line65"
  /\ IF df_clean = <<>>
     THEN /\ pc' = "raised"
          /\ err' = "ValueError"
          /\ UNCHANGED all_dates
     ELSE /\ all_dates' = date_range(DateMin(df_clean), DateMax(df_clean))
          /\ pc' = "line66"
          /\ UNCHANGED err
  /\ UNCHANGED <<df, callArgs, df_sorted, df_clean, i, ctl, atl, ret,
                 scenario, fitVars>>

\* lines 66-67: set_index('date'), reindex(all_dates), reset_index(); reindex
\* raises ValueError on an index with duplicate labels
Reindex ==
  /\ pc = "line66"
  /\ IF HasDuplicateLabels(df_clean)
     THEN /\ pc' = "raised"
          /\ err' = "ValueError"
          /\ UNCHANGED df_clean
     ELSE /\ df_clean' = reindex(df_clean, all_dates)
          /\ pc' = "line70"
          /\ UNCHANGED err
  /\ UNCHANGED <<df, callArgs, df_sorted, all_dates, i, ctl, atl, ret,
                 scenario, fitVars>>

\* line 70: df_clean['TSS'].fillna(0, inplace=True)
FillMissing ==
  /\ pc = "line70"
  /\ df_clean' = fillna(df_clean, Float(0))
  /\ pc' = "line72"
  /\ UNCHANGED <<err, df, callArgs, df_sorted, all_dates, i, ctl, atl, ret,
                 scenario, fitVars>>

\* lines 72-77: the three NaN columns, and the seeds
InitRecursion ==
  /\ pc = "line72"
  /\ df_clean' = AddColumns(df_clean)
  /\ ctl' = RecursionSeed(ctl_start, atl_start).ctl
  /\ atl' = RecursionSeed(ctl_start, atl_start).atl
  /\ i' = 0
  /\ pc' = "line80"
  /\ UNCHANGED <<err, df, callArgs, df_sorted, all_dates, ret, scenario, fitVars>>

\* lines 80-86: one iteration of the loop
LoopStep ==
  /\ pc = "line80"
  /\ i < Len(df_clean)
  /\ LET tss == df_clean[i + 1].TSS
         c == CtlStep(ctl, tss)
         a == AtlStep(atl, tss)
     IN  /\ ctl' = c
         /\ atl' = a
         /\ df_clean' = WriteRow(df_clean, i, c, a)
  /\ i' = i + 1
  /\ UNCHANGED <<pc, err, df, callArgs, df_sorted, all_dates, ret, scenario, fitVars>>

\* line 88: return df_clean
Return ==
  /\ pc = "line80"
  /\ i = Len(df_clean)
  /\ ret' = df_clean
  /\ pc' = "returned"
  /\ UNCHANGED <<err, df, callArgs, loadLocals, scenario, fitVars>>

Body ==
  \/ ConvertDates
  \/ SortRows
  \/ DropMissing
  \/ BuildDateRange
  \/ Reindex
  \/ FillMissing
  \/ InitRecursion
  \/ LoopStep
  \/ Return

(* ----------------------------------------------------------------------- *)
(* fit_cp_w_prime(df)                                                      *)
(* ----------------------------------------------------------------------- *)
TimeChoices == {60, 120}
PowerChoices == {QInt(300), QInt(250)}

\* the profile of the regression sanity test
SanityProfile ==
  << Point(60, QInt(300)), Point(120, QInt(250)),
     Point(180, QFrac(2333, 10)), Point(240, QInt(225)) >>

Profiles ==
  UNION {[1..n -> {Point(t, p) : t \in TimeChoices, p \in PowerChoices}] :
           n \in 0..MaxPoints}
    \cup {SanityProfile}

CallFit ==
  /\ pc = "idle"
  /\ \E p \in Profiles : profile' = p
  /\ pc' = "fit_line140"
  /\ UNCHANGED <<err, df, callArgs, loadLocals, ret, scenario, x, y, fit>>

\* lines 140-141
FitShape ==
  /\ pc = "fit_line140"
  /\ x' = FitX(profile)
  /\ y' = FitY(profile)
  /\ pc' = "fit_line143"
  /\ UNCHANGED <<err, df, callArgs, loadLocals, ret, scenario, profile, fit>>

\* lines 143-150
FitRegress ==
  /\ pc = "fit_line143"
  /\ IF LinregressRaises(x, y)
     THEN /\ pc' = "fit_raised"
          /\ err' = "ValueError"
          /\ UNCHANGED fit
     ELSE /\ fit' = linregress(x, y)
          /\ pc' = "fit_returned"
          /\ UNCHANGED err
  /\ UNCHANGED <<df, callArgs, loadLocals, ret, scenario, profile, x, y>>

Next == Call \/ Body \/ CallFit \/ FitShape \/ FitRegress

Spec == Init /\ [][Next]_vars

(* ----------------------------------------------------------------------- *)
(* Continuation scenario: a series covering days 1..LongDays is processed  *)
(* as days 1..SplitDay with default seeds, then days SplitDay+1..LongDays  *)
(* seeded with the first call's final ctl/atl, then whole in one call.     *)
(* ----------------------------------------------------------------------- *)
SplitDay == LongDays \div 2

LongObserved(d, p) == d \in {1, SplitDay, SplitDay + 1, LongDays} \/ d % p = 0
LongStress(d, a, b) == Float(((a * d + b) % 4) * 25)
LongTable(p, a, b) ==
  LET all == [d \in 1..LongDays |-> Row(DateCell("ts", d), LongStress(d, a, b))]
  IN  SelectSeq(all, LAMBDA r : LongObserved(r.date.day, p))
LongTables == {LongTable(p, a, b) : p \in 1..3, a \in 0..2, b \in 0..3}

FirstPart(t) == SelectSeq(t, LAMBDA r : r.date.day <= SplitDay)
SecondPart(t) == SelectSeq(t, LAMBDA r : r.date.day > SplitDay)

LongFirst ==
  /\ pc = "idle"
  /\ \E t \in LongTables :
       /\ series' = t
       /\ df' = FirstPart(t)
       /\ df_before' = FirstPart(t)
  /\ ctl_start' = Float(0)
  /\ atl_start' = Float(0)
  /\ phase' = 1
  /\ pc' = "line60"
  /\ UNCHANGED <<err, loadLocals, ret, hist, fitVars>>

LongSecond ==
  /\ pc = "returned"
  /\ phase = 1
  /\ hist' = <<ret>>
  /\ df' = SecondPart(series)
  /\ df_before' = SecondPart(series)
  /\ ctl_start' = ret[Len(ret)].ctl
  /\ atl_start' = ret[Len(ret)].atl
  /\ phase' = 2
  /\ pc' = "line60"
  /\ UNCHANGED <<err, loadLocals, ret, series, fitVars>>

LongWhole ==
  /\ pc = "returned"
  /\ phase = 2
  /\ hist' = Append(hist, ret)
  /\ df' = series
  /\ df_before' = series
  /\ ctl_start' = Float(0)
  /\ atl_start' = Float(0)
  /\ phase' = 3
  /\ pc' = "line60"
  /\ UNCHANGED <<err, loadLocals, ret, series, fitVars>>

NextLong == LongFirst \/ LongSecond \/ LongWhole \/ Body

SpecLong == Init /\ [][NextLong]_vars

\* every division of the recursion is exact at the chosen Scale
DivisionsExact ==
  (pc = "line80" /\ i < Len(df_clean)) =>
     /\ ZRemSmall(FSub(df_clean[i + 1].TSS, ctl).v, CTL_DAYS) = 0
     /\ ZRemSmall(FSub(df_clean[i + 1].TSS, atl).v, ATL_DAYS) = 0

(* ======================================================================= *)
(* Properties                                                              *)
(* ======================================================================= *)
Finished == pc \in {"returned", "raised"}
FitFinished == pc \in {"fit_returned", "fit_raised"}

\* days on which the table passed in holds a non-missing stress value
ObservedDays(t) == {t[k].date.day : k \in {j \in DOMAIN t : ~t[j].TSS.nan}}
MinDay(S) == CHOOSE d \in S : \A e \in S : d <= e
MaxDay(S) == CHOOSE d \in S : \A e \in S : e <= d
\* the stress observed on day d (the observation is unique when the call returns)
StressOn(t, d) ==
  IF d \in ObservedDays(t)
  THEN t[CHOOSE k \in DOMAIN t : t[k].date.day = d /\ ~t[k].TSS.nan].TSS
  ELSE Float(0)

(* C1: whenever the call returns a series, it has (end - start) + 1 rows,  *)
(* start and end being the least and greatest day with non-missing stress  *)
(* in the input, and row k is calendar day start + k - 1: every day of the *)
(* range exactly once, ascending, step one day.                            *)
C1_GapFillingComplete ==
  pc = "returned" =>
    LET start == MinDay(ObservedDays(df_before))
        end == MaxDay(ObservedDays(df_before))
    IN  /\ Len(ret) = (end - start) + 1
        /\ \A k \in DOMAIN ret : ret[k].date = DateCell("ts", start + k - 1)

C1_Witness ==
  /\ pc = "returned"
  /\ Len(ret) = 4
  /\ ObservedDays(df_before) = {1, 4}
  /\ df_before[1].date.day = 4

(* C2: in a returned series no ctl, atl or tsb is NaN and every record has *)
(* tsb = ctl - atl, whatever the input and the seeds.                      *)
C2_TsbIdentity ==
  pc = "returned" =>
    \A k \in DOMAIN ret :
      /\ ~ret[k].ctl.nan /\ ~ret[k].atl.nan /\ ~ret[k].tsb.nan
      /\ ret[k].tsb = FSub(ret[k].ctl, ret[k].atl)

C2_Witness ==
  /\ pc = "returned"
  /\ ctl_start = Float(30) /\ atl_start = Float(50)
  /\ Len(ret) >= 3
  /\ \E k \in DOMAIN ret : ret[k].TSS = Float(60) /\ ret[k].tsb # Float(0)

(* C3: the series returned for days 1..SplitDay with default seeds,        *)
(* followed by the series returned for days SplitDay+1..LongDays seeded    *)
(* with the first one's final ctl and atl, is record for record the series *)
(* returned by one call over days 1..LongDays with default seeds.          *)
C3_SeedContinuation ==
  (phase = 3 /\ pc = "returned") =>
    LET parts == hist[1] \o hist[2]
    IN  /\ Len(ret) = LongDays
        /\ Len(parts) = Len(ret)
        /\ \A k \in DOMAIN ret :
             /\ ret[k].date = parts[k].date
             /\ ret[k].ctl = parts[k].ctl
             /\ ret[k].atl = parts[k].atl
             /\ ret[k].tsb = parts[k].tsb

C3_Witness ==
  /\ phase = 3 /\ pc = "returned"
  /\ Len(hist) = 2 /\ Len(hist[1]) = SplitDay
  /\ Len(series) < LongDays
  /\ ret[LongDays].ctl # Float(0)
  /\ hist[2][1].ctl # ret[1].ctl

(* C4 (as claimed): with two non-missing observations on one date the call *)
(* completes and the series holds exactly one record for that date.        *)
DuplicatedDays(t) ==
  {d \in ObservedDays(t) :
     Cardinality({k \in DOMAIN t : t[k].date.day = d /\ ~t[k].TSS.nan}) >= 2}
C4_DuplicateDatesCollapse ==
  (Finished /\ DuplicatedDays(df_before) # {}) =>
    /\ pc = "returned"
    /\ \A d \in DuplicatedDays(df_before) :
         Cardinality({k \in DOMAIN ret : ret[k].date.day = d}) = 1

(* C5 (as claimed): with no non-missing observation the call fails with    *)
(* EmptyInputError and returns no series.                                  *)
PastDateRange == pc \in {"line66", "line70", "line72", "line80", "returned", "raised"}
DistinctTimes(prof) == {prof[k].time : k \in DOMAIN prof}
C6_DegenerateProfileRejected ==
  (FitFinished /\ Cardinality(DistinctTimes(profile)) < 2) =>
    (pc = "fit_raised" /\ err \in {"InsufficientDataError", "DegenerateFitError"})

C8_SanityFitExact ==
  (pc = "fit_returned" /\ profile = SanityProfile) =>
    /\ y = <<QInt(18000), QInt(30000), QInt(42000), QInt(54000)>>
    /\ QEq(fit.CP, QInt(200))
    /\ QEq(fit.W_prime, QInt(6000))
    /\ QIsZero(fit.CP_err)
    /\ QIsZero(fit.W_prime_err)

(* C8 (amended): for the sanity profile power*time is 18000, 30000, 41994, *)
(* 54000 (233.3 * 180 = 41994), so the least-squares fit returns           *)
(* CP = 199.99 and W' = 6000 with nonzero standard errors: sqrt(0.0007)    *)
(* on the slope and sqrt(18.9) on the intercept.                           *)
C8_SanityFitNearlyLinear ==
  (pc = "fit_returned" /\ profile = SanityProfile) =>
    /\ x = <<QInt(60), QInt(120), QInt(180), QInt(240)>>
    /\ y = <<QInt(18000), QInt(30000), QInt(41994), QInt(54000)>>
    /\ QEq(fit.CP, QFrac(19999, 100))
    /\ QEq(fit.W_prime, QInt(6000))
    /\ QEq(fit.CP_err, QFrac(7, 10000))
    /\ QEq(fit.W_prime_err, QFrac(189, 10))

C8_Witness == pc = "fit_returned" /\ profile = SanityProfile /\ QPositive(fit.CP_err)

(* C9 (as claimed): when the call has ended, by return or by exception,    *)
(* the caller's table is what it was before the call.                      *)
C9_InputUnchanged == Finished => df = df_before

(* C10: rows are written front to back, one per loop iteration; in the     *)
(* returned series day 1 is one step from the seeds, every later day one   *)
(* step from the day before it, with that day's stress (0 where the input  *)
(* has no observation), and consecutive records are consecutive days.      *)
C10_ForwardRecursion ==
  /\ pc = "line80" =>
       \A k \in DOMAIN df_clean : (k <= i) <=> ~df_clean[k].ctl.nan
  /\ pc = "returned" =>
       \A k \in DOMAIN ret :
         LET prevCtl == IF k = 1 THEN ctl_start ELSE ret[k - 1].ctl
             prevAtl == IF k = 1 THEN atl_start ELSE ret[k - 1].atl
             stress == StressOn(df_before, ret[k].date.day)
         IN  /\ ret[k].TSS = stress
             /\ ret[k].ctl = FAdd(prevCtl, FDiv(FSub(stress, prevCtl), 42))
             /\ ret[k].atl = FAdd(prevAtl, FDiv(FSub(stress, prevAtl), 7))
             /\ k > 1 => ret[k].date.day = ret[k - 1].date.day + 1

C10_Witness ==
  /\ pc = "returned"
  /\ Len(ret) = 3
  /\ ObservedDays(df_before) = {2, 4}
  /\ ctl_start = Float(30)
  /\ ret[2].TSS = Float(0) /\ ret[3].TSS = Float(60)

====
